---- MODULE Spec2Model ----
(***************************************************************************)
(* Model of the credential lifecycle manager of QRloginFront               *)
(* (src/src/services/authService.ts) and of the callers that touch the     *)
(* persisted keys (MobileLogin.tsx, OrinIdManagement.tsx).                 *)
(*                                                                         *)
(* One TLA+ step is one task of the JavaScript event loop together with    *)
(* the microtasks it queues: a promise's .then/.finally callbacks and the  *)
(* continuations of the functions awaiting it run in the step in which the *)
(* promise settles.  Time is counted in minutes.                           *)
(***************************************************************************)
EXTENDS Integers, FiniteSets, Sequences, TLC

\* ---------------------------------------------------------------- bounds
MaxTime     == 3      \* the clock runs 0..MaxTime
MaxLifetime == 3      \* accessTokenExpiresIn ranges over Skew..MaxLifetime
MaxIssued   == 2      \* token pairs the server issues in one behaviour
NumProcs    == 1      \* concurrent authenticatedFetch calls
MaxInflight == 2      \* refresh fetches the network can hold at once
MaxTimers   == 2      \* timeouts the browser can hold at once
MaxApprovals == 1     \* approval requests in flight at once
MaxPad      == 1      \* blanks around a scanned text, each side
MaxStreams  == 2      \* camera streams that can be live at once
MaxPending  == 2      \* getUserMedia calls that can be unsettled at once
MaxChecks   == 2      \* availability requests that can be unanswered at once
MaxLoops    == 2      \* decode cycles, and resume timers, that can be alive at once

\* ------------------------------------------------------------- constants
NULL == -1            \* JavaScript null / an absent localStorage key
Skew == 2             \* 2 * 60 * 1000 ms: refresh this long before expiry

Procs      == 1..NumProcs
AttemptIds == 1..MaxInflight
TimerIds   == 1..MaxTimers
Lifetimes  == Skew..MaxLifetime
OrinIds    == {7}                       \* one orinId value the server may return
Kinds      == {"get", "delete"}         \* OrinIdService calls wrapped by authenticatedFetch
Responses  == {"ok", "401", "err", "rejected"}

VARIABLES
  now,               \* Date.now()
  store,             \* localStorage: accessToken, refreshToken, orinId, tokenExpiry
  refreshPromise,    \* AuthService.refreshPromise: NULL or the attempt it holds
  tokenExpiryTimer,  \* AuthService.tokenExpiryTimer: NULL or a timeout id
  timers,            \* the browser's pending timeouts: records [id, at]
  attempts,          \* refresh fetches: "free" | "pending" | "parsing", and the body
  procs,             \* authenticatedFetch calls: position and what each has seen
  issued,            \* token pairs issued by the server so far
  ev,                \* what the last step did (history)
  started,           \* <<t, E>> of each proactive refresh started in the last step
  calls,             \* refreshAccessToken() calls made in the last step (history)
  mobile,            \* MobileLogin state: isAuthenticated, userToken, showScanner
  codeReader,        \* QrScanner: the BrowserMultiFormatReader of the mounted scanner
  approvals,         \* approval requests in flight: records [tok, body, open]
  startFailed,       \* the last camera start of QrScanner on this page failed (history)
  scanText,          \* the text a classifier is given
  parsed,            \* what the classifier made of it
  scanners,          \* the OrinIdScanner of each scan button: its state and refs
  tracks,            \* camera streams whose tracks have not been stopped
  requests,          \* getUserMedia calls not yet settled, per scanner
  camera,            \* the QrScanner with a cameraState: its state and refs
  qrScanner,         \* the QrScanner with a hand-written loop: state, refs, pending
  form,              \* OrinIdManagement: the identifier being edited
  checks             \* availability requests not yet answered

\* the mobile page, and the identifier scanner; a specification of one part
\* leaves the others as they start
pageVars == <<mobile, codeReader, approvals, startFailed>>

formVars == <<form, checks>>

scanVarsButForm == <<scanText, parsed, scanners, tracks, requests, camera, qrScanner>>

scanVars == <<scanText, parsed, scanners, tracks, requests, camera, qrScanner,
              formVars>>

uiVars == <<pageVars, scanVars>>

authVars == <<now, store, refreshPromise, tokenExpiryTimer, timers, attempts, procs,
              issued, started, calls>>

vars == <<now, store, refreshPromise, tokenExpiryTimer, timers, attempts, procs,
          issued, ev, started, calls, mobile, codeReader, approvals, startFailed,
          scanText, parsed,
          scanners, tracks, requests, camera, qrScanner, form, checks>>

\* --------------------------------------------------------------- records
TokenResponse(k, orin, life) ==
  [accessToken |-> k, refreshToken |-> k, orinId |-> orin,
   accessTokenExpiresIn |-> life]

NoTokens == TokenResponse(NULL, NULL, NULL)

EmptyStore ==
  [accessToken |-> NULL, refreshToken |-> NULL, orinId |-> NULL, tokenExpiry |-> NULL]

FreeAttempt == [st |-> "free", tokens |-> NoTokens]

\* A call of authenticatedFetch: its position, the refresh attempt it awaits,
\* the requests it has sent and their bearer tokens; `result` is what the call
\* returned or threw in the last step (history, "none" otherwise).
IdleProc ==
  [pc |-> "idle", att |-> NULL, sends |-> 0,
   tok1 |-> NULL, tok2 |-> NULL, result |-> "none"]

Done(result) == [IdleProc EXCEPT !.result = result]

\* The service state the operators below transform; `ok` turns FALSE when a
\* call would exceed MaxInflight or MaxTimers.
Cur ==
  [store |-> store, refreshPromise |-> refreshPromise,
   tokenExpiryTimer |-> tokenExpiryTimer, timers |-> timers,
   attempts |-> attempts, ev |-> {}, started |-> {}, calls |-> 0, ok |-> TRUE]

CommitAuth(s) ==
  /\ s.ok
  /\ store' = s.store
  /\ refreshPromise' = s.refreshPromise
  /\ tokenExpiryTimer' = s.tokenExpiryTimer
  /\ timers' = s.timers
  /\ attempts' = s.attempts
  /\ ev' = s.ev
  /\ started' = s.started
  /\ calls' = s.calls

Commit(s) == CommitAuth(s) /\ UNCHANGED uiVars

CommitPage(s) == CommitAuth(s) /\ UNCHANGED scanVars

Emit(s, e) == [s EXCEPT !.ev = @ \cup {e}]

Min(S) == CHOOSE x \in S : \A y \in S : x <= y

\* ------------------------------------------------------ browser timeouts
ClearTimeout(s, id) ==
  IF \E t \in s.timers : t.id = id
  THEN [Emit(s, "timeout_cleared") EXCEPT !.timers = {t \in @ : t.id # id}]
  ELSE s

\* setTimeout(cb, delay), its id stored in tokenExpiryTimer
SetTimeout(s, delay) ==
  LET free == TimerIds \ {t.id : t \in s.timers}
  IN  IF free = {} THEN [s EXCEPT !.ok = FALSE]
      ELSE [s EXCEPT !.timers = @ \cup {[id |-> Min(free), at |-> now + delay]},
                     !.tokenExpiryTimer = Min(free)]

\* ----------------------------------------------------------- AuthService
\* !x of a number or null
Falsy(x) == x = NULL \/ x = 0

GetTokenExpiryTime(s) == s.store.tokenExpiry

GetAccessToken(s) == s.store.accessToken

GetRefreshToken(s) == s.store.refreshToken

\* mutant: a Credential still counts at the instant it expires
IsAuthenticated_Inclusive(s) ==
  /\ GetAccessToken(s) # NULL
  /\ ~Falsy(GetTokenExpiryTime(s))
  /\ now <= GetTokenExpiryTime(s)

IsAuthenticated(s) ==
  /\ GetAccessToken(s) # NULL
  /\ ~Falsy(GetTokenExpiryTime(s))
  /\ now < GetTokenExpiryTime(s)

\* History: the call is counted, and noted when no refreshToken is stored.
Called(s) ==
  [(IF s.store.refreshToken = NULL THEN Emit(s, "called_without_token") ELSE s)
     EXCEPT !.calls = @ + 1]

\* lines 104-110: the fetch is sent and its promise chain occupies the slot
StartAttempt(s) ==
  LET free == {a \in AttemptIds : s.attempts[a].st = "free"}
  IN  IF free = {} THEN [s |-> [s EXCEPT !.ok = FALSE], ret |-> NULL]
      ELSE [s |-> [Emit(s, "refresh_sent") EXCEPT
                     !.attempts[Min(free)] = [st |-> "pending", tokens |-> NoTokens],
                     !.refreshPromise = Min(free)],
            ret |-> Min(free)]

\* mutant: the in-flight slot is not consulted
RefreshAccessToken_NoDedup(s) ==
  IF GetRefreshToken(s) = NULL
  THEN [s |-> Emit(Called(s), "refresh_no_token"), ret |-> NULL]
  ELSE StartAttempt(Called(s))

\* mutant: an attempt whose answer has arrived is not joined
RefreshAccessToken_JoinPendingOnly(s) ==
  IF s.refreshPromise # NULL /\ s.attempts[s.refreshPromise].st = "pending"
  THEN [s |-> Emit(Called(s), "refresh_joined"), ret |-> s.refreshPromise]
  ELSE IF GetRefreshToken(s) = NULL
  THEN [s |-> Emit(Called(s), "refresh_no_token"), ret |-> NULL]
  ELSE StartAttempt(Called(s))

\* mutant: the refreshToken is not checked before the fetch
RefreshAccessToken_NoTokenCheck(s) ==
  IF s.refreshPromise # NULL
  THEN [s |-> Emit(Called(s), "refresh_joined"), ret |-> s.refreshPromise]
  ELSE StartAttempt(Called(s))

\* refreshAccessToken() up to its return: [s, ret], ret the promise returned
\* (the attempt it settles with) or NULL when the call throws.
RefreshAccessToken(s) ==
  IF s.refreshPromise # NULL
  THEN [s |-> Emit(Called(s), "refresh_joined"), ret |-> s.refreshPromise]
  ELSE IF GetRefreshToken(s) = NULL
  THEN [s |-> Emit(Called(s), "refresh_no_token"), ret |-> NULL]
  ELSE StartAttempt(Called(s))

\* mutant: the refresh is scheduled one more minute before the expiry
ScheduleTokenRefresh_Early(s) ==
  LET s1 == IF s.tokenExpiryTimer # NULL THEN ClearTimeout(s, s.tokenExpiryTimer) ELSE s
      expiryTime == GetTokenExpiryTime(s1)
      timeUntilRefresh == (expiryTime - (Skew + 1)) - now
  IN  IF Falsy(expiryTime) THEN s1
      ELSE IF timeUntilRefresh > 0
      THEN Emit(SetTimeout(s1, timeUntilRefresh), "timer_armed")
      ELSE RefreshAccessToken(
             [Emit(s1, "refresh_immediate") EXCEPT
                !.started = @ \cup {<<now, expiryTime>>}]).s

\* mutant: the previously armed timer is not cancelled
ScheduleTokenRefresh_NoClear(s) ==
  LET expiryTime == GetTokenExpiryTime(s)
      timeUntilRefresh == (expiryTime - Skew) - now
  IN  IF Falsy(expiryTime) THEN s
      ELSE IF timeUntilRefresh > 0
      THEN Emit(SetTimeout(s, timeUntilRefresh), "timer_armed")
      ELSE RefreshAccessToken(
             [Emit(s, "refresh_immediate") EXCEPT
                !.started = @ \cup {<<now, expiryTime>>}]).s

ScheduleTokenRefresh(s) ==
  LET s1 == IF s.tokenExpiryTimer # NULL THEN ClearTimeout(s, s.tokenExpiryTimer) ELSE s
      expiryTime == GetTokenExpiryTime(s1)
      timeUntilRefresh == (expiryTime - Skew) - now
  IN  IF Falsy(expiryTime) THEN s1
      ELSE IF timeUntilRefresh > 0
      THEN Emit(SetTimeout(s1, timeUntilRefresh), "timer_armed")
      ELSE RefreshAccessToken(
             [Emit(s1, "refresh_immediate") EXCEPT
                !.started = @ \cup {<<now, expiryTime>>}]).s

\* mutant: an expiry later than the new one is kept
SetTokenExpiry_KeepLater(s, expiresIn) ==
  [s EXCEPT !.store.tokenExpiry = IF @ > now + expiresIn THEN @ ELSE now + expiresIn]

\* setTokenExpiry (lines 55-58)
SetTokenExpiry(s, expiresIn) == [s EXCEPT !.store.tokenExpiry = now + expiresIn]

\* mutant: the refresh token of the answer is not written
StoreTokens_AccessOnly(s, tokens) ==
  LET s1 == [s EXCEPT !.store.accessToken = tokens.accessToken,
                      !.store.orinId = IF tokens.orinId # NULL THEN tokens.orinId ELSE @]
  IN  ScheduleTokenRefresh(
        SetTokenExpiry(Emit(s1, "store_tokens"), tokens.accessTokenExpiresIn))

\* storeTokens (lines 61-69)
StoreTokens(s, tokens) ==
  LET s1 == [s EXCEPT !.store.accessToken = tokens.accessToken,
                      !.store.refreshToken = tokens.refreshToken,
                      !.store.orinId = IF tokens.orinId # NULL THEN tokens.orinId ELSE @]
  IN  ScheduleTokenRefresh(
        SetTokenExpiry(Emit(s1, "store_tokens"), tokens.accessTokenExpiresIn))

\* mutant: the orinId key is left behind
ClearAuth_KeepOrinId(s) ==
  LET s1 == [Emit(s, "clear_auth") EXCEPT !.store = [EmptyStore EXCEPT !.orinId = s.store.orinId]]
  IN  IF s1.tokenExpiryTimer # NULL
      THEN [ClearTimeout(s1, s1.tokenExpiryTimer) EXCEPT !.tokenExpiryTimer = NULL]
      ELSE s1

\* mutant: the armed timer is not cancelled
ClearAuth_KeepTimer(s) == [Emit(s, "clear_auth") EXCEPT !.store = EmptyStore]

ClearAuth(s) ==
  LET s1 == [Emit(s, "clear_auth") EXCEPT !.store = EmptyStore]
  IN  IF s1.tokenExpiryTimer # NULL
      THEN [ClearTimeout(s1, s1.tokenExpiryTimer) EXCEPT !.tokenExpiryTimer = NULL]
      ELSE s1

InitTokenRefresh(s) ==
  IF s.store.accessToken # NULL THEN ScheduleTokenRefresh(s) ELSE s

\* authenticatedFetch lines 138-152: read the token, send the request
SendFirst(s, pr) ==
  IF GetAccessToken(s) = NULL
  THEN [s |-> s, pr |-> Done("No access token available")]
  ELSE [s |-> Emit(s, "fetch_sent"),
        pr |-> [pr EXCEPT !.pc = "fetch1", !.tok1 = GetAccessToken(s), !.sends = @ + 1]]

\* mutant: the retry reuses the token of the first attempt
SendRetry_OldToken(s, pr) ==
  [s |-> Emit(s, "retry_sent"),
   pr |-> [pr EXCEPT !.pc = "fetch2", !.tok2 = pr.tok1, !.sends = @ + 1]]

\* authenticatedFetch lines 158-166: read the new token, send the retry
SendRetry(s, pr) ==
  [s |-> Emit(s, "retry_sent"),
   pr |-> [pr EXCEPT !.pc = "fetch2", !.tok2 = GetAccessToken(s), !.sends = @ + 1]]

\* mutant: the catch does not clear the store
PreCheckCatch_NoClear(s, pr) == [s |-> s, pr |-> Done("Authentication required")]

\* authenticatedFetch lines 132-135: catch of the refresh before the request
PreCheckCatch(s, pr) ==
  [s |-> ClearAuth(s), pr |-> Done("Authentication required")]

\* authenticatedFetch lines 167-170: catch of the refresh after a 401
RetryCatch(s, pr) ==
  [s |-> ClearAuth(s), pr |-> Done("Authentication failed")]

\* `await this.refreshAccessToken()` at position pc ("preRefresh" before the
\* request, "retryRefresh" after a 401), up to the suspension or the throw
AwaitRefresh(s, pr, pc) ==
  LET r == RefreshAccessToken(s)
  IN  IF r.ret = NULL
      THEN IF pc = "preRefresh" THEN PreCheckCatch(r.s, pr) ELSE RetryCatch(r.s, pr)
      ELSE [s |-> r.s,
            pr |-> [pr EXCEPT !.pc = pc, !.att = r.ret]]

\* authenticatedFetch lines 127-152, from the call to its first suspension
AuthenticatedFetch(s, pr) ==
  IF ~IsAuthenticated(s)
  THEN AwaitRefresh(s, pr, "preRefresh")
  ELSE SendFirst(s, pr)

\* the continuation of a call suspended on the refresh promise, outcome o
AfterRefresh(s, pr, o) ==
  LET q == [pr EXCEPT !.att = NULL]
  IN  IF pr.pc = "preRefresh"
      THEN IF o.kind = "ok" THEN SendFirst(s, q) ELSE PreCheckCatch(s, q)
      ELSE IF o.kind = "ok" THEN SendRetry(s, q) ELSE RetryCatch(s, q)

\* OrinIdService.deleteMyOrinId lines 419-427: after a 2xx answer to DELETE
\* the orinId key is removed; every other wrapped call leaves the store alone
OrinIdServiceAfter(s, kind, r) ==
  IF kind = "delete" /\ r = "ok"
  THEN [Emit(s, "orin_removed") EXCEPT !.store.orinId = NULL]
  ELSE s

\* authenticatedFetch lines 154-173: the first response arrives
OnFirstResponse(s, pr, kind, r) ==
  IF r = "401"
  THEN AwaitRefresh(s, pr, "retryRefresh")
  ELSE [s |-> OrinIdServiceAfter(s, kind, r), pr |-> Done(r)]

\* mutant: the retry is awaited inside the try, so its rejection is caught
OnRetryResponse_Caught(s, pr, kind, r) ==
  IF r = "rejected" THEN RetryCatch(s, pr)
  ELSE [s |-> OrinIdServiceAfter(s, kind, r), pr |-> Done(r)]

\* authenticatedFetch lines 160-166: `return fetch(...)`: the retry's outcome
\* is the call's outcome (a rejection of the returned promise is not caught)
OnRetryResponse(s, pr, kind, r) ==
  [s |-> OrinIdServiceAfter(s, kind, r), pr |-> Done(r)]

\* the calls as the step finds them: last step's results are forgotten
Quiet == [p \in Procs |-> [procs[p] EXCEPT !.result = "none"]]

\* the calls awaiting attempt a resume, in order, with outcome o
RECURSIVE ResumeAll(_, _, _, _)
ResumeAll(s, ps, waiting, o) ==
  IF waiting = {} THEN [s |-> s, ps |-> ps]
  ELSE LET p == Min(waiting)
           r == AfterRefresh(s, ps[p], o)
       IN  ResumeAll(r.s, [ps EXCEPT ![p] = r.pr], waiting \ {p}, o)

\* mutant: .finally does not reset the slot
Settle_KeepsSlot(s, a, o) ==
  ResumeAll([s EXCEPT !.attempts[a] = FreeAttempt],
            Quiet, {p \in Procs : procs[p].att = a}, o)

\* refreshAccessToken lines 119-121 (.finally) and the awaiting continuations
Settle(s, a, o) ==
  ResumeAll([s EXCEPT !.refreshPromise = NULL, !.attempts[a] = FreeAttempt],
            Quiet, {p \in Procs : procs[p].att = a}, o)

\* ------------------------------------------------- login and signup
\* non-2xx bodies: the API puts its text in `message` or in `error`; the other
\* member is absent ("")
ErrorBodies ==
  {[message |-> "Invalid credentials", error |-> ""],
   [message |-> "", error |-> "Email already exists"]}

\* `x || d` on a string: the empty (or absent) string is falsy
OrDefault(x, d) == IF x = "" THEN d ELSE x

\* History: the body of the answer, for the claims to compare with.
Body(s, body) ==
  Emit(Emit(s, "message:" \o body.message), "error:" \o body.error)

\* mutant: a rejected login logs the stored session out
LoginRejected_Clears(s, body) ==
  ClearAuth(Emit(Emit(Body(s, body), "login_failed"),
                 "threw:" \o OrDefault(body.message, "Login failed")))

\* AuthService.login, `!response.ok` (lines 197-200): nothing but the throw
LoginRejected(s, body) ==
  Emit(Emit(Body(s, body), "login_failed"),
       "threw:" \o OrDefault(body.message, "Login failed"))

\* AuthService.signup (lines 210-223): a 2xx answer is not read and nothing is
\* stored; a non-2xx answer throws `error.error || 'Signup failed'`
Signup(s, ok, body) ==
  IF ok
  THEN Emit(s, "signup_ok")
  ELSE Emit(Emit(Body(s, body), "signup_failed"),
            "threw:" \o OrDefault(body.error, "Signup failed"))

\* ------------------------------------------- MobileLogin and QrScanner
\* What a decoded QR text is to the callback of QrScanner (lines 52-63):
\* JSON.parse throws (json = FALSE) or gives an object whose challengeId and
\* nonce members are absent (NULL), zero or a value.
QrTexts ==
  [json : {TRUE}, challengeId : {NULL, 0, 11}, nonce : {NULL, 21}]
    \cup {[json |-> FALSE, challengeId |-> NULL, nonce |-> NULL]}

\* `qrData.challengeId && qrData.nonce` (line 55)
ValidQr(text) ==
  text.json /\ ~Falsy(text.challengeId) /\ ~Falsy(text.nonce)

\* <QrScanner> is rendered (MobileLogin lines 137, 226-240)
ScannerMounted(m) == m.isAuthenticated /\ m.showScanner

\* The reader after MobileLogin's state goes from m to n: mounting runs the
\* effect of QrScanner (lines 16-25: a new reader, devices being listed),
\* unmounting runs its cleanup (lines 91-97: reset)
Rendered(m, n, reader) ==
  IF ~ScannerMounted(n) THEN "none"
  ELSE IF ScannerMounted(m) THEN reader
  ELSE "starting"

\* History: an approval in flight remembers whether the scanner that decoded
\* its payload is still the mounted one.
Sessions(m, n, as) ==
  IF ScannerMounted(m) /\ ~ScannerMounted(n)
  THEN [i \in DOMAIN as |-> [as[i] EXCEPT !.open = FALSE]]
  ELSE as

Render(n) ==
  /\ mobile' = n
  /\ codeReader' = Rendered(mobile, n, codeReader)
  /\ approvals' = Sessions(mobile, n, approvals)
  /\ startFailed' = IF ScannerMounted(n) /\ ~ScannerMounted(mobile) THEN FALSE
                     ELSE startFailed

\* mutant: the reader is left running after a valid payload
DecodeCallback_NoReset(reader, text) == reader

\* QrScanner decode callback lines 52-63: the reader after a result; reset()
\* only for a valid payload, an invalid one is logged and decoding goes on
DecodeCallback(reader, text) == IF ValidQr(text) THEN "reset" ELSE reader

\* MobileLogin.handleQrApproval lines 102-114, up to the await of the fetch
HandleQrApproval(as, userToken, qrData) ==
  Append(as, [tok |-> userToken,
              body |-> [challengeId |-> qrData.challengeId, nonce |-> qrData.nonce],
              open |-> TRUE])

RemoveAt(seq, i) == SubSeq(seq, 1, i - 1) \o SubSeq(seq, i + 1, Len(seq))

\* mutant: a failed approval is sent again by itself
ApprovalFailed_Resend(as, i) == Append(RemoveAt(as, i), as[i])

\* MobileLogin.handleQrApproval lines 120-126: a toast, nothing is kept
ApprovalFailed(as, i) == RemoveAt(as, i)

\* ------------------------------------------- QrScanner: the decoded text
\* A JSON member as the text of its value; "undefined" is an absent member.
MemberValues == {"undefined", "null", "false", "0", "\"\"", "\"abc\"", "7"}

\* What JSON.parse makes of a decoded text (line 52): it throws ("malformed"),
\* or gives an object with these members, or a value that is not an object.
JsonObjects == [kind : {"object"}, challengeId : MemberValues, nonce : MemberValues]

JsonOthers ==
  [kind : {"malformed", "null", "number", "string", "array"},
   challengeId : {"undefined"}, nonce : {"undefined"}]

DecodedTexts == JsonObjects \cup JsonOthers

Truthy_Present(v) == v # "undefined"

\* JavaScript truthiness of a member value, as `&&` tests it (line 55)
Truthy(v) == v \notin {"undefined", "null", "false", "0", "\"\""}

\* what the callback does with the text: hands it on, or only logs
Challenge(q) == [st |-> "challenge", challengeId |-> q.challengeId, nonce |-> q.nonce]

Invalid == [st |-> "invalid", challengeId |-> "undefined", nonce |-> "undefined"]

\* the try block of the decode callback (lines 51-63): JSON.parse throwing
\* and reading a member of null both end in the catch, which only logs
ClassifyChallenge(q) ==
  IF q.kind \in {"malformed", "null"} THEN Invalid
  ELSE IF Truthy(q.challengeId) /\ Truthy(q.nonce) THEN Challenge(q)
  ELSE Invalid

\* ------------------------------------------------ OrinIdScanner: parseOrinId
\* A text is a sequence of one-character strings.
NumericIdLen == 13

DigitChars == {"0", "1", "2", "3", "4", "5", "6", "7", "8", "9"}

LowerChars == {"a", "i", "n", "o", "r", "t"}

UpperChars == {"A", "I", "N", "O", "R", "T"}

\* String.prototype.toLowerCase, one character
LowerChar(c) ==
  CASE c = "A" -> "a" [] c = "I" -> "i" [] c = "N" -> "n"
    [] c = "O" -> "o" [] c = "R" -> "r" [] c = "T" -> "t"
    [] OTHER -> c

ToLowerCase(s) == [k \in 1..Len(s) |-> LowerChar(s[k])]

\* String.prototype.trim
RECURSIVE TrimStart(_)
TrimStart(s) ==
  IF s # <<>> /\ Head(s) = " " THEN TrimStart(Tail(s)) ELSE s

RECURSIVE TrimEnd(_)
TrimEnd(s) ==
  IF s # <<>> /\ s[Len(s)] = " " THEN TrimEnd(SubSeq(s, 1, Len(s) - 1)) ELSE s

Trim(s) == TrimEnd(TrimStart(s))

\* /^\d{13}$/
IsNumericId(s) == Len(s) = NumericIdLen /\ \A k \in 1..Len(s) : s[k] \in DigitChars

\* /^[a-zA-Z0-9-_]+$/
IsAlphaId(s) ==
  /\ s # <<>>
  /\ \A k \in 1..Len(s) : s[k] \in DigitChars \cup LowerChars \cup UpperChars \cup {"-", "_"}

OrinPrefix == <<"o", "r", "i", "n">>

\* cleanText.toLowerCase().startsWith('orin')
StartsWithOrin(s) ==
  Len(s) >= Len(OrinPrefix) /\ SubSeq(ToLowerCase(s), 1, Len(OrinPrefix)) = OrinPrefix

\* what parseOrinId returns: a string, or null
Id(s) == [st |-> "id", id |-> s]

NoId == [st |-> "null", id |-> <<>>]

NotParsed == [st |-> "pending", id |-> <<>>]

\* OrinIdScanner.parseOrinId (lines 46-73)
ParseOrinId(t) ==
  LET cleanText == Trim(t)
      idPart == SubSeq(cleanText, Len(OrinPrefix) + 1, Len(cleanText))
  IN  IF IsNumericId(cleanText)
      THEN Id(OrinPrefix \o <<"-">> \o cleanText)
      ELSE IF StartsWithOrin(cleanText)
      THEN IF idPart # <<>> /\ Head(idPart) = "-"
           THEN Id(ToLowerCase(cleanText))
           ELSE Id(ToLowerCase(OrinPrefix \o <<"-">> \o idPart))
      ELSE IF IsAlphaId(cleanText) THEN Id(cleanText)
      ELSE NoId

\* the texts a QR code or the manual prompt may carry
Digits14 ==
  <<"1", "2", "3", "4", "5", "6", "7", "8", "9", "0", "1", "2", "3", "4">>

Cores ==
  {SubSeq(Digits14, 1, n) : n \in (NumericIdLen - 1) .. (NumericIdLen + 1)}
    \cup {[SubSeq(Digits14, 1, NumericIdLen) EXCEPT ![k] = c] :
            k \in 1..NumericIdLen, c \in {"a", " "}}
    \cup {pre \o sep \o rest :
            pre \in {OrinPrefix, <<"O", "R", "I", "N">>, <<"O", "r", "i", "n">>},
            sep \in {<<>>, <<"-">>, <<"_">>},
            rest \in {<<>>, <<"t", "1">>, <<"T", "1">>, SubSeq(Digits14, 1, NumericIdLen)}}
    \cup {<<>>, <<"-">>, <<"t", "_", "1">>, <<"a", "!">>, OrinPrefix \o <<"-", "t", "!">>}

RECURSIVE Blanks(_)
Blanks(n) == IF n = 0 THEN <<>> ELSE <<" ">> \o Blanks(n - 1)

Texts == {Blanks(l) \o c \o Blanks(r) : l \in 0..MaxPad, r \in 0..MaxPad, c \in Cores}

\* ------------------------------------------- OrinIdManagement: the form
MinIdLen == 3

MaxIdLen == 50

RECURSIVE Repeat(_, _)
Repeat(c, n) == IF n = 0 THEN <<>> ELSE <<c>> \o Repeat(c, n - 1)

\* what the operator may leave in the input of line 195-202 (typed or pasted)
TypedIds ==
  {<<>>, <<"a">>, <<"a", "1">>, <<"a", "1", "_">>, <<"A", "-", "1", "0">>,
   <<"a", "!", "1">>, <<" ", " ", " ">>, <<" ", "a", "1">>,
   Repeat("a", MaxIdLen), Repeat("a", MaxIdLen + 1),
   Repeat("a", MaxIdLen - 1) \o <<"!">>}

ValidateOrinIdFormat_NoUpperLimit(orinId) ==
  IF orinId = <<>> \/ Trim(orinId) = <<>> THEN "empty"
  ELSE IF Len(orinId) < MinIdLen THEN "short"
  ELSE IF ~IsAlphaId(orinId) THEN "charset"
  ELSE ""

\* OrinIdService.validateOrinIdFormat (lines 489-509): the message, "" if valid
ValidateOrinIdFormat(orinId) ==
  IF orinId = <<>> \/ Trim(orinId) = <<>> THEN "empty"
  ELSE IF Len(orinId) < MinIdLen THEN "short"
  ELSE IF Len(orinId) > MaxIdLen THEN "long"
  ELSE IF ~IsAlphaId(orinId) THEN "charset"
  ELSE ""

\* OrinIdManagement lines 9-18
NoForm ==
  [isEditing |-> FALSE, isLoading |-> FALSE, newOrinId |-> <<>>,
   isAvailable |-> "null", availabilityMessage |-> ""]

InitForm ==
  /\ form = NoForm
  /\ checks = <<>>

\* the effect on [newOrinId] (lines 25-38) after newOrinId became v in form
\* f, with the requests cs in flight
OnNewOrinId(f, cs, v) ==
  LET g == [f EXCEPT !.newOrinId = v]
  IN  IF v = f.newOrinId THEN [f |-> f, cs |-> cs, ev |-> {}]
      ELSE IF Len(v) > 0
      THEN IF ValidateOrinIdFormat(v) # ""
           THEN [f |-> [g EXCEPT !.availabilityMessage = ValidateOrinIdFormat(v),
                                 !.isAvailable = "false"],
                 cs |-> cs, ev |-> {"validated", "format_rejected"}]
           ELSE [f |-> g, cs |-> Append(cs, v), ev |-> {"validated", "check_sent"}]
      ELSE [f |-> [g EXCEPT !.availabilityMessage = "", !.isAvailable = "null"],
            cs |-> cs, ev |-> {}]

\* ------------------------------------------------ OrinIdScanner: camera
\* OrinIdManagement mounts one OrinIdScanner per scan button (lines 313-326)
Insts == {"own", "search"}

StreamIds == 1..MaxStreams

\* an OrinIdScanner that is not on the page, and one as it mounts (lines
\* 11-16); `loop` is what its scanningLoop is doing
Unmounted ==
  [mounted |-> FALSE, hasPermission |-> "null", isScanning |-> FALSE,
   error |-> "", streamRef |-> NULL, codeReaderRef |-> FALSE,
   srcObject |-> NULL, loop |-> "off"]

Mounted == [Unmounted EXCEPT !.mounted = TRUE]

\* getUserMedia calls of the mounted scanner (alive) and of scanners that
\* were unmounted while the call was pending (dead)
NoRequests == [alive |-> 0, dead |-> 0]

Pending == requests["own"].alive + requests["own"].dead
             + requests["search"].alive + requests["search"].dead

\* the <video> is rendered only in the scanning view (lines 181, 217, 251)
VideoRef(o) == o.mounted /\ o.hasPermission = "true"

\* OrinIdScanner.stopScanning (lines 148-167) on scanner o with live tracks ts
StopScanning(o, ts) ==
  [o |-> [o EXCEPT !.codeReaderRef = FALSE, !.streamRef = NULL,
                   !.srcObject = NULL, !.isScanning = FALSE, !.loop = "off"],
   ts |-> ts \ {o.streamRef}]

\* OrinIdScanner.startScanning (lines 75-138).  scanningLoop reads the
\* isScanning of the render that called startScanning (line 100).
StartScanning(o, ts) ==
  IF ~VideoRef(o) \/ o.streamRef = NULL
  THEN [o |-> o, ts |-> ts]
  ELSE [o |-> [o EXCEPT !.isScanning = TRUE, !.error = "",
                        !.srcObject = o.streamRef, !.codeReaderRef = TRUE,
                        !.loop = IF o.isScanning THEN "decoding" ELSE "off"],
        ts |-> ts]

\* setHasPermission(v) (lines 37, 42): when the value changes the component
\* renders again, and the effect on [hasPermission] (lines 18-26) runs its
\* previous cleanup (stopScanning) and then startScanning if v is true
SetHasPermission(o, ts, v) ==
  IF o.hasPermission = v THEN [o |-> o, ts |-> ts]
  ELSE LET c == StopScanning([o EXCEPT !.hasPermission = v], ts)
       IN  IF v = "true" THEN StartScanning(c.o, c.ts) ELSE c

\* the smallest stream id not in use
NewStream(ts) == Min(StreamIds \ ts)

\* ------------------------------------------- QrScanner with a cameraState
\* the component before it is on the page, with the values of its first
\* render (lines 9-15); alive and dead count its unsettled getUserMedia calls
NoCamera ==
  [mounted |-> FALSE, cameraState |-> "idle", errorMessage |-> "",
   streamRef |-> NULL, readerRef |-> FALSE, scanningRef |-> FALSE,
   srcObject |-> NULL, alive |-> 0, dead |-> 0]

\* the reasons getUserMedia rejects with, by error.name (lines 99-107):
\* permission denied, no device, device busy, anything else
CameraErrors == {"NotAllowedError", "NotFoundError", "NotReadableError", "Error"}

\* the <video> exists only in the 'active' view (lines 218-232)
CameraVideoRef(c) == c.mounted /\ c.cameraState = "active"

\* cleanup (lines 18-47) on component c with live tracks ts; cameraState is
\* not among the things it changes
Cleanup(c, ts) ==
  [c |-> [c EXCEPT !.scanningRef = FALSE, !.readerRef = FALSE,
                   !.streamRef = NULL, !.srcObject = NULL],
   ts |-> ts \ {c.streamRef}]

\* startCamera up to its await (lines 50-68)
StartCamera(c) ==
  [c EXCEPT !.cameraState = "requesting", !.errorMessage = "", !.alive = @ + 1]

\* startCamera after getUserMedia resolved with stream (lines 69-95)
OnStream(c, stream) ==
  LET held == [c EXCEPT !.streamRef = stream, !.alive = @ - 1]
  IN  IF CameraVideoRef(c)
      THEN [held EXCEPT !.srcObject = stream, !.cameraState = "active",
                        !.readerRef = TRUE, !.scanningRef = TRUE]
      ELSE held

\* ------------------------------------------------------------------ Init
\* MobileLogin lines 18-23 (useState initial values); no scanner is mounted
InitPage ==
  /\ mobile = [isAuthenticated |-> FALSE, userToken |-> NULL, showScanner |-> FALSE]
  /\ codeReader = "none"
  /\ approvals = <<>>
  /\ startFailed = FALSE

\* OrinIdManagement lines 15-16: neither scanner is shown; no camera is in use
\* ------------------------------------- QrScanner with a hand-written loop
\* The QrScanner that asks for the camera itself and decodes frame by frame
\* (initializeScanner, startScanning / scanContinuously, handleScanResult,
\* retryScanning, stopScanner).  Its state, its refs and what it has pending:
\* getUserMedia calls (inits), the 1000 ms timers of playVideo (startTimers),
\* decodeFromVideoElement calls (decoding), requestAnimationFrame callbacks
\* (frames) and the 2000 ms timers of handleScanResult (resumeTimers).
NoQrScanner ==
  [mounted |-> FALSE, hasPermission |-> FALSE, isScanning |-> FALSE,
   error |-> FALSE, srcObject |-> FALSE, codeReader |-> FALSE,
   inits |-> 0, startTimers |-> 0, decoding |-> 0, frames |-> 0,
   resumeTimers |-> 0]

\* nothing of the scanner is pending
Drained(q) ==
  q.inits = 0 /\ q.startTimers = 0 /\ q.decoding = 0 /\ q.frames = 0
    /\ q.resumeTimers = 0

\* decode cycles running or scheduled by a frame callback
Cycles(q) == q.decoding + q.frames

\* videoRef.current: the <video> is rendered only once hasPermission is true
\* (lines 176-206), and the ref is null again when the scanner has left the page
QrVideoRef(q) == q.mounted /\ q.hasPermission

\* a state setter (setIsScanning, setError) does nothing after unmount
SetState(q, isScanning, error) ==
  IF q.mounted THEN [q EXCEPT !.isScanning = isScanning, !.error = error] ELSE q

\* mutant: the cycle does not check the refs before decoding
ScanContinuously_NoGuard(q) == [q EXCEPT !.decoding = @ + 1]

\* scanContinuously (lines 103-120), up to the await of the decode
ScanContinuously(q) ==
  IF ~q.codeReader \/ ~QrVideoRef(q) THEN q
  ELSE [q EXCEPT !.decoding = @ + 1]

\* startScanning (lines 94-127): nothing records that a cycle is under way
QrStartScanning(q) ==
  IF ~q.codeReader \/ ~QrVideoRef(q) THEN q
  ELSE ScanContinuously(SetState(q, TRUE, FALSE))

\* handleScanResult (lines 129-153): a valid payload is handed over, any
\* other text shows an error and arms the timer that starts scanning again
HandleScanResult(q, valid) ==
  IF valid THEN SetState(q, FALSE, q.error)
  ELSE [SetState(q, FALSE, TRUE) EXCEPT !.resumeTimers = @ + 1]

\* stopScanner (lines 155-168), the cleanup of the mount effect (lines 15-20):
\* the reader is reset and stays in its ref; the <video> leaves the page
StopScanner(q) ==
  [q EXCEPT !.mounted = FALSE, !.hasPermission = FALSE, !.isScanning = FALSE,
            !.error = FALSE, !.srcObject = FALSE]

InitCamera ==
  /\ scanners = [i \in Insts |-> Unmounted]
  /\ tracks = {}
  /\ requests = [i \in Insts |-> NoRequests]
  /\ camera = NoCamera
  /\ qrScanner = NoQrScanner
  /\ InitForm

InitUi ==
  /\ InitPage
  /\ scanText = <<>>
  /\ parsed = NotParsed
  /\ InitCamera

Init ==
  /\ now = 0
  /\ store = EmptyStore
  /\ refreshPromise = NULL
  /\ tokenExpiryTimer = NULL
  /\ timers = {}
  /\ attempts = [a \in AttemptIds |-> FreeAttempt]
  /\ procs = [p \in Procs |-> IdleProc]
  /\ issued = 0
  /\ ev = {}
  /\ started = {}
  /\ calls = 0
  /\ InitUi

\* --------------------------------------------------------------- actions
Tick ==
  /\ now < MaxTime
  /\ now' = now + 1
  /\ ev' = {}
  /\ started' = {}
  /\ calls' = 0
  /\ procs' = Quiet
  /\ UNCHANGED <<store, refreshPromise, tokenExpiryTimer, timers, attempts, issued>>
  /\ UNCHANGED uiVars

\* MobileLogin.handleLogin / AuthService.login, 2xx answer
LoginOk ==
  /\ issued < MaxIssued
  /\ \E orin \in OrinIds \cup {NULL}, life \in Lifetimes :
       Commit(StoreTokens(Emit(Cur, "login"), TokenResponse(issued + 1, orin, life)))
  /\ issued' = issued + 1
  /\ procs' = Quiet
  /\ UNCHANGED now

\* MobileLogin.handleLogin / AuthService.login, non-2xx answer
LoginFail ==
  /\ \E body \in ErrorBodies : Commit(LoginRejected(Cur, body))
  /\ procs' = Quiet
  /\ UNCHANGED <<now, issued>>

\* AuthService.signup / MobileLogin.handleSignup: the answer to the signup
\* request.  After a 201 handleSignup calls handleLogin (lines 82-90), whose
\* answer is a later LoginOk or LoginFail step.
SignupResponse ==
  /\ \E ok \in BOOLEAN, body \in ErrorBodies : Commit(Signup(Cur, ok, body))
  /\ procs' = Quiet
  /\ UNCHANGED <<now, issued>>

Logout ==
  /\ Commit(ClearAuth(Emit(Cur, "logout")))
  /\ procs' = Quiet
  /\ UNCHANGED <<now, issued>>

\* the timeout armed by scheduleTokenRefresh fires (lines 39-41)
TimerFire ==
  \E t \in timers :
    /\ now >= t.at
    /\ Commit(RefreshAccessToken(
         [Emit(Cur, "timer_fired") EXCEPT
            !.timers = @ \ {t},
            !.started = @ \cup {<<now, store.tokenExpiry>>}]).s)
    /\ procs' = Quiet
  /\ UNCHANGED <<now, issued>>

\* the refresh endpoint answers 2xx: `await response.json()` (lines 112-115)
RefreshResponseOk ==
  \E a \in AttemptIds, orin \in OrinIds \cup {NULL}, life \in Lifetimes :
    /\ attempts[a].st = "pending"
    /\ issued < MaxIssued
    /\ issued' = issued + 1
    /\ attempts' = [attempts EXCEPT
         ![a] = [st |-> "parsing", tokens |-> TokenResponse(issued + 1, orin, life)]]
    /\ ev' = {"refresh_response_ok"}
    /\ started' = {}
    /\ calls' = 0
    /\ procs' = Quiet
    /\ UNCHANGED <<now, store, refreshPromise, tokenExpiryTimer, timers>>
    /\ UNCHANGED uiVars

\* the body is parsed: storeTokens, .finally, awaiting calls (lines 115-121)
RefreshParsed ==
  \E a \in AttemptIds :
    /\ attempts[a].st = "parsing"
    /\ LET tokens == attempts[a].tokens
           r == Settle(StoreTokens(Emit(Cur, "refresh_ok"), tokens), a,
                       [kind |-> "ok", tok |-> tokens.accessToken])
       IN  Commit(r.s) /\ procs' = r.ps
    /\ UNCHANGED <<now, issued>>

\* the refresh endpoint answers non-2xx (line 113), the fetch is rejected, or
\* response.json() rejects (line 115): the chain rejects and .finally runs
RefreshFail ==
  \E a \in AttemptIds, why \in {"Token refresh failed", "network", "body"} :
    /\ attempts[a].st = IF why = "body" THEN "parsing" ELSE "pending"
    /\ LET r == Settle(Emit(Cur, "refresh_failed"), a, [kind |-> why, tok |-> NULL])
       IN  Commit(r.s) /\ procs' = r.ps
    /\ UNCHANGED <<now, issued>>

\* an OrinIdService method calls authenticatedFetch
AuthFetchCall ==
  \E p \in Procs :
    /\ procs[p].pc = "idle"
    /\ LET r == AuthenticatedFetch(Emit(Cur, "auth_fetch"), IdleProc)
       IN  Commit(r.s) /\ procs' = [Quiet EXCEPT ![p] = r.pr]
    /\ UNCHANGED <<now, issued>>

\* The answer to the wrapped request arrives.  Which OrinIdService method made
\* the call is drawn here: nothing reads it before the answer.
FirstResponse ==
  \E p \in Procs, k \in Kinds, resp \in Responses :
    /\ procs[p].pc = "fetch1"
    /\ LET r == OnFirstResponse(Emit(Emit(Cur, "first_response"), resp), procs[p], k, resp)
       IN  Commit(r.s) /\ procs' = [Quiet EXCEPT ![p] = r.pr]
    /\ UNCHANGED <<now, issued>>

RetryResponse ==
  \E p \in Procs, k \in Kinds, resp \in Responses :
    /\ procs[p].pc = "fetch2"
    /\ LET r == OnRetryResponse(Emit(Emit(Cur, "retry_response"), resp), procs[p], k, resp)
       IN  Commit(r.s) /\ procs' = [Quiet EXCEPT ![p] = r.pr]
    /\ UNCHANGED <<now, issued>>

\* the page is loaded again: localStorage survives, the module state does not;
\* lines 232-237 construct the service and call initTokenRefresh
Reload ==
  /\ Commit(InitTokenRefresh(
       [Emit(Cur, "page_load") EXCEPT
          !.refreshPromise = NULL, !.tokenExpiryTimer = NULL, !.timers = {},
          !.attempts = [a \in AttemptIds |-> FreeAttempt]]))
  /\ procs' = [p \in Procs |-> IdleProc]
  /\ UNCHANGED <<now, issued>>

\* ------------------------------------------- MobileLogin page: actions
\* the page is loaded: the service is constructed (authService.ts lines
\* 232-237) and MobileLogin mounts (lines 18-33); requests of the page that
\* was left are gone
MountPage ==
  /\ CommitPage(InitTokenRefresh(
       [Emit(Cur, "page_load") EXCEPT
          !.refreshPromise = NULL, !.tokenExpiryTimer = NULL, !.timers = {},
          !.attempts = [a \in AttemptIds |-> FreeAttempt]]))
  /\ LET token == store.accessToken
         n == IF token # NULL
              THEN [isAuthenticated |-> TRUE, userToken |-> token, showScanner |-> FALSE]
              ELSE [isAuthenticated |-> FALSE, userToken |-> NULL, showScanner |-> FALSE]
     IN  mobile' = n /\ codeReader' = "none" /\ approvals' = <<>>
  /\ startFailed' = FALSE
  /\ procs' = [p \in Procs |-> IdleProc]
  /\ UNCHANGED <<now, issued>>

\* MobileLogin.handleLogin, 2xx answer (lines 49-55)
HandleLogin ==
  /\ ~mobile.isAuthenticated
  /\ issued < MaxIssued
  /\ \E orin \in OrinIds \cup {NULL}, life \in Lifetimes :
       CommitPage(StoreTokens(Emit(Cur, "login"), TokenResponse(issued + 1, orin, life)))
  /\ Render([mobile EXCEPT !.isAuthenticated = TRUE, !.userToken = issued + 1])
  /\ issued' = issued + 1
  /\ procs' = Quiet
  /\ UNCHANGED now

\* MobileLogin.handleLogout (lines 129-135); showScanner is not reset
HandleLogout ==
  /\ mobile.isAuthenticated
  /\ CommitPage(ClearAuth(Emit(Cur, "logout")))
  /\ Render([mobile EXCEPT !.isAuthenticated = FALSE, !.userToken = NULL])
  /\ procs' = Quiet
  /\ UNCHANGED <<now, issued>>

\* the buttons of the authenticated view (MobileLogin lines 231, 241)
OpenScanner ==
  /\ mobile.isAuthenticated /\ ~mobile.showScanner
  /\ CommitPage(Emit(Cur, "open_scanner"))
  /\ Render([mobile EXCEPT !.showScanner = TRUE])
  /\ procs' = Quiet
  /\ UNCHANGED <<now, issued>>

CloseScanner ==
  /\ mobile.isAuthenticated /\ mobile.showScanner
  /\ CommitPage(Emit(Cur, "close_scanner"))
  /\ Render([mobile EXCEPT !.showScanner = FALSE])
  /\ procs' = Quiet
  /\ UNCHANGED <<now, issued>>

\* QrScanner.setupCamera lines 28-73: a camera is found and the stream starts
CameraReady ==
  /\ codeReader = "starting"
  /\ codeReader' = "decoding"
  /\ CommitPage(Emit(Cur, "camera_ready"))
  /\ procs' = Quiet
  /\ UNCHANGED <<now, issued, mobile, approvals, startFailed>>

\* QrScanner.setupCamera lines 31-33, 75-85: no camera, or permission denied
CameraFail ==
  /\ codeReader = "starting"
  /\ codeReader' = "failed"
  /\ startFailed' = TRUE
  /\ CommitPage(Emit(Cur, "camera_failed"))
  /\ procs' = Quiet
  /\ UNCHANGED <<now, issued, mobile, approvals>>

\* the decode callback is called with a result (QrScanner lines 48-64)
Decode ==
  /\ codeReader = "decoding"
  /\ \E text \in QrTexts :
       IF ValidQr(text)
       THEN /\ codeReader' = DecodeCallback(codeReader, text)
            /\ approvals' = HandleQrApproval(approvals, mobile.userToken, text)
            /\ Len(approvals') <= MaxApprovals
            /\ CommitPage(Emit(Emit(Emit(Cur, "decode"), "delivered"), "approval_sent"))
       ELSE /\ CommitPage(Emit(Emit(Cur, "decode"), "decode_invalid"))
            /\ codeReader' = DecodeCallback(codeReader, text)
            /\ UNCHANGED approvals
  /\ procs' = Quiet
  /\ UNCHANGED <<now, issued, mobile, startFailed>>

\* the approval endpoint answers (MobileLogin lines 116-126)
ApprovalResponse ==
  /\ \E i \in DOMAIN approvals, resp \in Responses :
       LET rest == RemoveAt(approvals, i)
       IN  IF resp = "ok"
           THEN /\ CommitPage(Emit(Emit(Cur, "approval_ok"),
                                   IF approvals[i].open THEN "session_open" ELSE "session_gone"))
                /\ mobile' = [mobile EXCEPT !.showScanner = FALSE]
                /\ codeReader' = Rendered(mobile, mobile', codeReader)
                /\ approvals' = Sessions(mobile, mobile', rest)
           ELSE /\ CommitPage(Emit(Emit(Emit(Cur, "approval_failed"), resp),
                                   IF approvals[i].open THEN "session_open" ELSE "session_gone"))
                /\ approvals' = ApprovalFailed(approvals, i)
                /\ UNCHANGED <<mobile, codeReader>>
  /\ procs' = Quiet
  /\ UNCHANGED <<now, issued, startFailed>>

Next ==
  \/ Tick
  \/ LoginOk
  \/ Logout
  \/ TimerFire
  \/ RefreshResponseOk
  \/ RefreshParsed
  \/ RefreshFail
  \/ AuthFetchCall
  \/ FirstResponse
  \/ RetryResponse
  \/ Reload

Spec == Init /\ [][Next]_vars

\* The account operations (login, signup, logout, page load) with the refresh
\* machinery they drive.  Callers of authenticatedFetch take no part in them.
NextAccount ==
  \/ Tick
  \/ LoginOk
  \/ LoginFail
  \/ SignupResponse
  \/ Logout
  \/ TimerFire
  \/ RefreshResponseOk
  \/ RefreshParsed
  \/ RefreshFail
  \/ Reload

SpecAccount == Init /\ [][NextAccount]_vars

\* The mobile page: login, the challenge scanner and the approval request,
\* with the refresh machinery running underneath.
NextApprove ==
  \/ Tick
  \/ MountPage
  \/ HandleLogin
  \/ HandleLogout
  \/ TimerFire
  \/ RefreshResponseOk
  \/ RefreshParsed
  \/ RefreshFail
  \/ OpenScanner
  \/ CloseScanner
  \/ CameraReady
  \/ CameraFail
  \/ Decode
  \/ ApprovalResponse

SpecApprove == Init /\ [][NextApprove]_vars

\* parseOrinId as a function: it is given any of the texts, and applied.
\* the service as it is constructed on a browser with nothing stored
InitService ==
  /\ now = 0
  /\ store = EmptyStore
  /\ refreshPromise = NULL
  /\ tokenExpiryTimer = NULL
  /\ timers = {}
  /\ attempts = [a \in AttemptIds |-> FreeAttempt]
  /\ procs = [p \in Procs |-> IdleProc]
  /\ issued = 0
  /\ ev = {}
  /\ started = {}
  /\ calls = 0

InitParse ==
  /\ InitService
  /\ InitPage
  /\ scanText \in Texts
  /\ parsed = NotParsed
  /\ InitCamera

\* the decode callback or handleManualInput calls parseOrinId (lines 108, 173)
Parse ==
  /\ parsed = NotParsed
  /\ parsed' = ParseOrinId(scanText)
  /\ ev' = {"parsed"}
  /\ UNCHANGED <<authVars, pageVars, formVars, qrScanner, scanText, scanners, tracks, requests, camera>>

NextParse ==
  \/ Parse

SpecParse == InitParse /\ [][NextParse]_vars

\* ------------------------------------------- QrScanner: classification
InitClassify ==
  /\ InitService
  /\ InitPage
  /\ scanText \in DecodedTexts
  /\ parsed = NotParsed
  /\ InitCamera

\* the decode callback is called with a result (QrScanner lines 48-64)
Classify ==
  /\ parsed = NotParsed
  /\ parsed' = ClassifyChallenge(scanText)
  /\ ev' = {"classified"}
  /\ UNCHANGED <<authVars, pageVars, formVars, qrScanner, scanText, scanners, tracks, requests, camera>>

NextClassify ==
  \/ Classify

SpecClassify == InitClassify /\ [][NextClassify]_vars

\* ------------------------------------------- OrinIdScanner: the actions
\* what the operator types into the prompt of handleManualInput (line 170):
\* a 13-digit identifier, a text parseOrinId rejects, or nothing
ManualInputs ==
  {SubSeq(Digits14, 1, NumericIdLen),
   [SubSeq(Digits14, 1, NumericIdLen) EXCEPT ![1] = " "],
   <<>>}

\* the parent removes scanner i from the page (lines 112, 118, 316, 323): the
\* effect cleanup runs stopScanning (lines 23-25); the calls it still awaits
\* go on without it
Unmount(i) ==
  /\ scanners' = [scanners EXCEPT ![i] = Unmounted]
  /\ tracks' = StopScanning(scanners[i], tracks).ts
  /\ requests' = [requests EXCEPT ![i] = [alive |-> 0, dead |-> @.dead + @.alive]]

\* OrinIdManagement lines 205 and 255: setShowScanner(true) / setShowSearchScanner(true)
OpenOrinScanner(i) ==
  /\ ~scanners[i].mounted
  /\ scanners' = [scanners EXCEPT ![i] = Mounted]
  /\ ev' = {"open"}
  /\ UNCHANGED <<authVars, pageVars, formVars, qrScanner, scanText, parsed, tracks, requests, camera>>

\* the close button of every view (lines 187, 223, 247): onClose
CloseOrinScanner(i) ==
  /\ scanners[i].mounted
  /\ Unmount(i)
  /\ ev' = {"close"}
  /\ UNCHANGED <<authVars, pageVars, formVars, qrScanner, scanText, parsed, camera>>

\* OrinIdScanner.requestCameraPermission up to its await (lines 28-36); the
\* button is in the permission prompt only (lines 199-204)
RequestCameraPermission(i) ==
  /\ scanners[i].mounted /\ scanners[i].hasPermission = "null"
  /\ Pending < MaxPending
  /\ requests' = [requests EXCEPT ![i].alive = @ + 1]
  /\ ev' = {"request"}
  /\ UNCHANGED <<authVars, pageVars, formVars, qrScanner, scanText, parsed, scanners, tracks, camera>>

\* getUserMedia resolves for the mounted scanner i (lines 36-37)
PermissionGranted(i) ==
  /\ requests[i].alive > 0
  /\ Cardinality(tracks) < MaxStreams
  /\ LET stream == NewStream(tracks)
         r == SetHasPermission([scanners[i] EXCEPT !.streamRef = stream],
                               tracks \cup {stream}, "true")
     IN  /\ scanners' = [scanners EXCEPT ![i] = r.o]
         /\ tracks' = r.ts
  /\ requests' = [requests EXCEPT ![i].alive = @ - 1]
  /\ ev' = {"granted"}
  /\ UNCHANGED <<authVars, pageVars, formVars, qrScanner, scanText, parsed, camera>>

\* getUserMedia resolves for a scanner that has left the page: the stream is
\* put in the ref of the dead component and setHasPermission does nothing
GrantedAfterUnmount(i) ==
  /\ requests[i].dead > 0
  /\ Cardinality(tracks) < MaxStreams
  /\ tracks' = tracks \cup {NewStream(tracks)}
  /\ requests' = [requests EXCEPT ![i].dead = @ - 1]
  /\ ev' = {"granted_unmounted"}
  /\ UNCHANGED <<authVars, pageVars, formVars, qrScanner, scanText, parsed, scanners, camera>>

\* getUserMedia rejects (lines 39-43), for the mounted scanner or a dead one
PermissionDenied(i) ==
  /\ \/ /\ requests[i].alive > 0
        /\ LET r == SetHasPermission(
                      [scanners[i] EXCEPT !.error = "Camera permission denied"],
                      tracks, "false")
           IN  /\ scanners' = [scanners EXCEPT ![i] = r.o]
               /\ tracks' = r.ts
        /\ requests' = [requests EXCEPT ![i].alive = @ - 1]
        /\ \E name \in CameraErrors : ev' = {"denied", i, name}
     \/ /\ requests[i].alive = 0 /\ requests[i].dead > 0
        /\ requests' = [requests EXCEPT ![i].dead = @ - 1]
        /\ ev' = {"denied_unmounted"}
        /\ UNCHANGED <<scanners, tracks>>
  /\ UNCHANGED <<authVars, pageVars, formVars, qrScanner, scanText, parsed, camera>>

\* OrinIdScanner.handleManualInput (lines 169-179), a button of every view
\* (lines 207, 232, 293); a valid text goes through handleSuccessfulScan
\* (lines 140-146) to the parent, which closes the scanner (lines 110-120)
HandleManualInput(i) ==
  /\ scanners[i].mounted
  /\ \E input \in ManualInputs :
       IF input = <<>>
       THEN /\ ev' = {"manual_empty"}
            /\ UNCHANGED <<scanners, tracks, requests>>
       ELSE IF ParseOrinId(input) # NoId
       THEN /\ Unmount(i)
            /\ ev' = {"manual_ok"}
       ELSE /\ scanners' = [scanners EXCEPT ![i].error = "Invalid OrinId format"]
            /\ ev' = {"manual_invalid"}
            /\ UNCHANGED <<tracks, requests>>
  /\ UNCHANGED <<authVars, pageVars, formVars, qrScanner, scanText, parsed, camera>>

NextOrinScan ==
  \/ \E i \in Insts : OpenOrinScanner(i)
  \/ \E i \in Insts : CloseOrinScanner(i)
  \/ \E i \in Insts : RequestCameraPermission(i)
  \/ \E i \in Insts : PermissionGranted(i)
  \/ \E i \in Insts : GrantedAfterUnmount(i)
  \/ \E i \in Insts : PermissionDenied(i)
  \/ \E i \in Insts : HandleManualInput(i)

SpecOrinScan == Init /\ [][NextOrinScan]_vars

\* ------------------------------------ QrScanner with a cameraState: actions
\* the component is put on the page: the mount effect calls startCamera
\* (lines 187-193)
MountCamera ==
  /\ ~camera.mounted
  /\ camera.alive + camera.dead < MaxPending
  /\ camera' = StartCamera([camera EXCEPT !.mounted = TRUE])
  /\ ev' = {"mount", "start"}
  /\ UNCHANGED <<authVars, pageVars, formVars, qrScanner, scanText, parsed, scanners, tracks, requests>>

\* the component leaves the page: the effect cleanup calls cleanup (lines
\* 190-192); its state is gone and a later mount starts from the first render
UnmountCamera ==
  /\ camera.mounted
  /\ LET r == Cleanup(camera, tracks)
     IN  /\ camera' = [NoCamera EXCEPT !.dead = camera.dead + camera.alive]
         /\ tracks' = r.ts
  /\ ev' = {"unmount", "cleanup"}
  /\ UNCHANGED <<authVars, pageVars, formVars, qrScanner, scanText, parsed, scanners, requests>>

\* getUserMedia resolves for the component on the page (lines 69-95)
CameraGranted ==
  /\ camera.alive > 0
  /\ Cardinality(tracks) < MaxStreams
  /\ LET stream == NewStream(tracks)
     IN  /\ camera' = OnStream(camera, stream)
         /\ tracks' = tracks \cup {stream}
  /\ ev' = {"stream"}
  /\ UNCHANGED <<authVars, pageVars, formVars, qrScanner, scanText, parsed, scanners, requests>>

\* getUserMedia resolves for a component that has left the page (line 69)
CameraGrantedAfterUnmount ==
  /\ camera.dead > 0
  /\ Cardinality(tracks) < MaxStreams
  /\ camera' = [camera EXCEPT !.dead = @ - 1]
  /\ tracks' = tracks \cup {NewStream(tracks)}
  /\ ev' = {"stream_unmounted"}
  /\ UNCHANGED <<authVars, pageVars, formVars, qrScanner, scanText, parsed, scanners, requests>>

\* getUserMedia rejects: the catch of startCamera (lines 96-111) sets the
\* message and the 'error' state, then calls cleanup
CameraRejected ==
  /\ \/ /\ camera.alive > 0
        /\ \E name \in CameraErrors :
             LET r == Cleanup([camera EXCEPT !.errorMessage = name,
                                             !.cameraState = "error",
                                             !.alive = @ - 1], tracks)
             IN  /\ camera' = r.c
                 /\ tracks' = r.ts
        /\ ev' = {"rejected", "cleanup"}
     \/ /\ camera.alive = 0 /\ camera.dead > 0
        /\ camera' = [camera EXCEPT !.dead = @ - 1]
        /\ ev' = {"rejected_unmounted"}
        /\ UNCHANGED tracks
  /\ UNCHANGED <<authVars, pageVars, formVars, qrScanner, scanText, parsed, scanners, requests>>

\* handleRetry (lines 196-199), the button of the 'error' view (line 258)
HandleRetry ==
  /\ camera.mounted /\ camera.cameraState = "error"
  /\ camera.alive + camera.dead < MaxPending
  /\ LET r == Cleanup(camera, tracks)
     IN  /\ camera' = StartCamera(r.c)
         /\ tracks' = r.ts
  /\ ev' = {"retry", "start"}
  /\ UNCHANGED <<authVars, pageVars, formVars, qrScanner, scanText, parsed, scanners, requests>>

NextCamera ==
  \/ MountCamera
  \/ UnmountCamera
  \/ CameraGranted
  \/ CameraGrantedAfterUnmount
  \/ CameraRejected
  \/ HandleRetry

SpecCamera == Init /\ [][NextCamera]_vars

\* ------------------------------------------- OrinIdManagement: actions
\* the answers of /api/orin/check (lines 55-62, 468-486)
CheckAnswers == {"available", "taken", "error"}

\* the buttons of lines 162-167 and 180-186: setIsEditing(true)
StartEdit ==
  /\ ~form.isEditing /\ ~form.isLoading
  /\ form' = [form EXCEPT !.isEditing = TRUE]
  /\ ev' = {"edit"}
  /\ UNCHANGED <<authVars, pageVars, scanVarsButForm, checks>>

\* onChange of the input (line 200) and the effect it causes (lines 25-38)
ChangeNewOrinId ==
  /\ form.isEditing /\ ~form.isLoading
  /\ \E v \in TypedIds :
       LET r == OnNewOrinId(form, checks, v)
       IN  /\ v # form.newOrinId
           /\ Len(r.cs) <= MaxChecks
           /\ form' = r.f
           /\ checks' = r.cs
           /\ ev' = r.ev \cup {"typed"}
  /\ UNCHANGED <<authVars, pageVars, scanVarsButForm>>

\* checkAvailability after its await (lines 55-62)
AvailabilityResponse ==
  /\ \E i \in DOMAIN checks, a \in CheckAnswers :
       /\ form' = [form EXCEPT
                     !.isAvailable = IF a = "available" THEN "true" ELSE "false",
                     !.availabilityMessage = a]
       /\ checks' = RemoveAt(checks, i)
       /\ ev' = {"check_answered"}
  /\ UNCHANGED <<authVars, pageVars, scanVarsButForm>>

\* handleCancelEdit (lines 103-108); the effect then takes its else branch
HandleCancelEdit ==
  /\ form.isEditing /\ ~form.isLoading
  /\ form' = [form EXCEPT !.isEditing = FALSE, !.newOrinId = <<>>,
                          !.availabilityMessage = "", !.isAvailable = "null"]
  /\ ev' = {"cancel"}
  /\ UNCHANGED <<authVars, pageVars, scanVarsButForm, checks>>

\* handleUpdate up to its await (lines 65-73); the button is enabled only
\* when isAvailable (line 222)
HandleUpdate ==
  /\ form.isEditing /\ ~form.isLoading
  /\ form.newOrinId # <<>> /\ form.isAvailable = "true"
  /\ form' = [form EXCEPT !.isLoading = TRUE]
  /\ ev' = {"update_sent"}
  /\ UNCHANGED <<authVars, pageVars, scanVarsButForm, checks>>

\* handleUpdate after its await (lines 74-83)
UpdateResponse ==
  /\ form.isLoading
  /\ \E ok \in BOOLEAN :
       IF ok
       THEN LET r == OnNewOrinId([form EXCEPT !.isEditing = FALSE, !.isLoading = FALSE],
                                 checks, <<>>)
            IN  /\ form' = r.f
                /\ ev' = {"update_ok"}
       ELSE /\ form' = [form EXCEPT !.isLoading = FALSE]
            /\ ev' = {"update_failed"}
  /\ UNCHANGED <<authVars, pageVars, scanVarsButForm, checks>>

NextForm ==
  \/ StartEdit
  \/ ChangeNewOrinId
  \/ AvailabilityResponse
  \/ HandleCancelEdit
  \/ HandleUpdate
  \/ UpdateResponse

SpecForm == Init /\ [][NextForm]_vars

\* ------------------------------- QrScanner with a hand-written loop: actions
StepQr(q, tags) ==
  /\ qrScanner' = q
  /\ ev' = tags \cup (IF q.decoding > qrScanner.decoding THEN {"decode_start"} ELSE {})
  /\ UNCHANGED <<authVars, pageVars, formVars, scanText, parsed, scanners, tracks,
                 requests, camera>>

\* the scanner is put on the page: the mount effect calls initializeScanner
\* (lines 15-20, 22-38)
MountQrScanner ==
  /\ ~qrScanner.mounted /\ Drained(qrScanner)
  /\ StepQr([NoQrScanner EXCEPT !.mounted = TRUE, !.inits = 1], {"mount"})

\* the scanner is taken off the page
UnmountQrScanner ==
  /\ qrScanner.mounted
  /\ StepQr(StopScanner(qrScanner), {"unmount"})

\* "Grant Camera Access" (line 182), shown until hasPermission is true
GrantCameraAccess ==
  /\ qrScanner.mounted /\ ~qrScanner.hasPermission
  /\ qrScanner.inits < MaxPending
  /\ StepQr([qrScanner EXCEPT !.inits = @ + 1], {"request"})

\* getUserMedia resolves (lines 38-81): the stream is attached only if the
\* <video> is already on the page; then play() succeeds and the start timer
\* is armed (lines 56-67), or fails (lines 68-72)
InitGranted ==
  /\ qrScanner.inits > 0
  /\ LET q == [qrScanner EXCEPT !.inits = @ - 1]
         p == IF q.mounted THEN [q EXCEPT !.hasPermission = TRUE] ELSE q
     IN  IF QrVideoRef(q)
         THEN \/ StepQr([p EXCEPT !.srcObject = TRUE, !.startTimers = @ + 1],
                        {"granted", "playing"})
              \/ StepQr([p EXCEPT !.srcObject = TRUE, !.error = TRUE],
                        {"granted", "play_failed"})
         ELSE StepQr(p, {"granted"})

\* getUserMedia rejects (lines 82-91)
InitRejected ==
  /\ qrScanner.inits > 0
  /\ StepQr(SetState([qrScanner EXCEPT !.inits = @ - 1], qrScanner.isScanning, TRUE),
            {"rejected"})

\* the timer of playVideo fires (lines 62-67)
StartTimerFires ==
  /\ qrScanner.startTimers > 0
  /\ Cycles(qrScanner) < MaxLoops
  /\ LET q == [qrScanner EXCEPT !.startTimers = @ - 1]
     IN  StepQr(IF QrVideoRef(q) THEN QrStartScanning([q EXCEPT !.codeReader = TRUE]) ELSE q,
                {"start_timer"})

\* decodeFromVideoElement settles (lines 107-119): with a text, which goes to
\* handleScanResult, or without one, and then the next cycle is scheduled
DecodeSettles ==
  /\ qrScanner.decoding > 0
  /\ LET q == [qrScanner EXCEPT !.decoding = @ - 1]
     IN  \/ StepQr(HandleScanResult(q, TRUE), {"decoded", "delivered"})
         \/ /\ q.resumeTimers < MaxLoops
            /\ StepQr(HandleScanResult(q, FALSE), {"decoded", "invalid"})
         \/ StepQr([q EXCEPT !.frames = @ + 1], {"decoded", "miss"})

\* the frame callback runs scanContinuously (line 119)
FrameFires ==
  /\ qrScanner.frames > 0
  /\ StepQr(ScanContinuously([qrScanner EXCEPT !.frames = @ - 1]), {"frame"})

\* the timer of handleScanResult fires (lines 140-143, 148-151)
ResumeFires ==
  /\ qrScanner.resumeTimers > 0
  /\ Cycles(qrScanner) < MaxLoops
  /\ LET q == [qrScanner EXCEPT !.resumeTimers = @ - 1]
     IN  StepQr(QrStartScanning(SetState(q, TRUE, q.error)), {"resume"})

\* "Try Again" (lines 170-174, 231-238), shown with an error in the video view
RetryScanning ==
  /\ qrScanner.mounted /\ qrScanner.hasPermission /\ qrScanner.error
  /\ Cycles(qrScanner) < MaxLoops
  /\ StepQr(QrStartScanning(SetState(qrScanner, TRUE, FALSE)), {"retry"})

NextLoop ==
  \/ MountQrScanner
  \/ UnmountQrScanner
  \/ GrantCameraAccess
  \/ InitGranted
  \/ InitRejected
  \/ StartTimerFires
  \/ DecodeSettles
  \/ FrameFires
  \/ ResumeFires
  \/ RetryScanning

SpecLoop == Init /\ [][NextLoop]_vars

\* ================================================================ claims
AuthRequired == {"Authentication required", "Authentication failed"}

RefreshCalled(e) ==
  e \cap {"refresh_joined", "refresh_sent", "refresh_no_token"} # {}

Awaiting(pr) == pr.att # NULL

C2_RetryUnauthorizedLogsOut ==
  /\ \A p \in Procs : procs[p].sends <= 2
  /\ {"retry_response", "401"} \subseteq ev =>
       /\ store = EmptyStore
       /\ \E p \in Procs : procs[p].result \in AuthRequired

\* ---------------------------------------------------------------- C3
\* C3: a call of authenticatedRequest made while isValid() is false calls
\* refresh() and sends nothing in that step; the request goes out only in the
\* step in which that refresh succeeds; when the refresh fails (or throws at
\* once) the store is cleared, the call fails with 'Authentication required'
\* and it has sent nothing.
C3_RefreshBeforeSend ==
  [][ /\ ("auth_fetch" \in ev' /\ ~IsAuthenticated(Cur)) =>
           /\ calls' = 1 /\ RefreshCalled(ev')
           /\ "fetch_sent" \notin ev'
           /\ "refresh_no_token" \in ev' =>
                /\ store' = EmptyStore
                /\ \E p \in Procs : procs'[p].result = "Authentication required"
      /\ \A p \in Procs :
           /\ procs[p].pc = "preRefresh" => procs[p].sends = 0
           /\ (procs[p].pc = "preRefresh" /\ procs'[p].pc = "fetch1") => "refresh_ok" \in ev'
           /\ (procs[p].pc = "preRefresh" /\ "refresh_failed" \in ev') =>
                /\ store' = EmptyStore
                /\ procs'[p].pc = "idle"
                /\ procs'[p].result = "Authentication required"
                /\ procs'[p].sends = 0
                /\ "fetch_sent" \notin ev'
    ]_vars

\* the refresh awaited before the request has failed and the call has given up
C3_Witness ==
  /\ {"refresh_failed", "clear_auth"} \subseteq ev
  /\ \E p \in Procs : procs[p].result = "Authentication required"

\* ---------------------------------------------------------------- C4
\* C4: a 401 answer to the first request makes exactly one call of refresh();
\* the retry is sent in the step in which that refresh succeeds, no further
\* refresh request is sent in that step, and the retry carries the access
\* token the store holds then, which is the one of the refresh response and
\* differs from the token of the first attempt.
C4_RetryWithNewToken ==
  [][ /\ {"first_response", "401"} \subseteq ev' => calls' = 1
      /\ \A p \in Procs :
           /\ procs[p].pc = "fetch2" =>
                procs[p].tok2 # NULL /\ procs[p].tok2 # procs[p].tok1 /\ procs[p].sends = 2
           /\ (procs[p].pc = "retryRefresh" /\ procs'[p].pc = "fetch2") =>
                /\ "refresh_ok" \in ev' /\ "refresh_sent" \notin ev'
                /\ procs'[p].tok2 = store'.accessToken
                /\ procs'[p].tok1 = procs[p].tok1
    ]_vars

\* a retry is in flight
C4_Witness == \E p \in Procs : procs[p].pc = "fetch2" /\ "retry_sent" \in ev

\* ---------------------------------------------------------------- C5
\* C5 (as claimed): every proactive refresh starts at a time t with
\* E - skew <= t < E, E the stored expiry.
C5_StartsInsideWindow ==
  \A x \in started : x[2] # NULL /\ x[2] - Skew <= x[1] /\ x[1] < x[2]

\* C5 (amended): a proactive refresh never starts before E - skew: a pending
\* timer is always set for exactly E - skew of the stored expiry E, and a
\* refresh started by scheduleTokenRefresh itself starts at a time >= E - skew.
\* (The start may be at or after E.)
C5_NeverBeforeWindow ==
  /\ \A x \in started : x[2] # NULL /\ x[2] - Skew <= x[1]
  /\ \A t \in timers : store.tokenExpiry # NULL /\ t.at = store.tokenExpiry - Skew

\* the timer has fired and started the refresh
C5_Witness == "timer_fired" \in ev /\ started # {} /\ "refresh_sent" \in ev

\* ---------------------------------------------------------------- C6
\* C6: every login and every successful refresh stores the tokens and runs
\* scheduleTokenRefresh: after the step, with refreshAt = tokenExpiry - skew,
\* either refreshAt <= now, refresh() was called once in the step and no timer
\* is pending, or refreshAt > now, refresh() was not called and exactly one
\* timer is pending, set for refreshAt and held in tokenExpiryTimer.
C6_ScheduleOnStore ==
  /\ (ev \cap {"login", "refresh_ok"} # {}) => "store_tokens" \in ev
  /\ "store_tokens" \in ev =>
       /\ store.tokenExpiry # NULL
       /\ IF store.tokenExpiry - Skew <= now
          THEN /\ "refresh_immediate" \in ev /\ calls = 1 /\ RefreshCalled(ev)
               /\ started = {<<now, store.tokenExpiry>>}
               /\ timers = {}
          ELSE /\ calls = 0 /\ "timer_armed" \in ev
               /\ timers = {[id |-> tokenExpiryTimer, at |-> store.tokenExpiry - Skew]}

\* a successful refresh has replaced the armed timer by a new one
C6_Witness == {"refresh_ok", "store_tokens", "timeout_cleared", "timer_armed"} \subseteq ev

\* ---------------------------------------------------------------- C7
Keys == {"accessToken", "refreshToken", "orinId", "tokenExpiry"}

Removed == {k \in Keys : store[k] # NULL /\ store'[k] = NULL}

\* C7 (as claimed): no step removes a strict subset of the four keys.
C7_NeverPartiallyCleared ==
  [][Removed # {} => store' = EmptyStore]_vars

\* C7 (amended): clearAuth (logout and the failure paths of authenticatedFetch)
\* removes all four keys in one step, and accessToken, refreshToken and
\* tokenExpiry are never removed otherwise; the one partial removal is that of
\* orinId alone, by deleteMyOrinId after a 2xx answer.
C7_ClearedTogetherExceptOrinId ==
  [][ /\ "clear_auth" \in ev' => store' = EmptyStore
      /\ "logout" \in ev' => "clear_auth" \in ev'
      /\ Removed # {} =>
           \/ "clear_auth" \in ev' /\ store' = EmptyStore
           \/ /\ Removed = {"orinId"} /\ {"orin_removed", "ok"} \subseteq ev'
              /\ \A k \in Keys \ {"orinId"} : store'[k] = store[k]
    ]_vars

\* deleteMyOrinId has removed orinId and left the credential in place
C7_Witness == "orin_removed" \in ev /\ store.orinId = NULL /\ store.accessToken # NULL

\* ---------------------------------------------------------------- C8
\* C8: right after logout() no key is present, no timeout is pending and
\* tokenExpiryTimer is null.
C8_LogoutClears ==
  "logout" \in ev => store = EmptyStore /\ timers = {} /\ tokenExpiryTimer = NULL

\* logout has cancelled an armed timer
C8_Witness == {"logout", "timeout_cleared"} \subseteq ev

\* ---------------------------------------------------------------- C9
\* C9 (as claimed): after every failed refresh the store is cleared.
C9_FailedRefreshLogsOut == "refresh_failed" \in ev => store = EmptyStore

\* ---------------------------------------------------------------- C10
\* C10 (as claimed): every call of refresh() made with no stored refreshToken
\* throws 'No refresh token available'.
C10_NoTokenAlwaysThrows == "called_without_token" \in ev => "refresh_no_token" \in ev

\* C10 (amended): a call of refresh() made with no stored refreshToken and no
\* attempt in flight throws, sends no request and leaves the slot empty; a
\* failed refresh never stores tokens: the store is left as it was or cleared.
C10_NoTokenNoRequest ==
  [][ /\ ("called_without_token" \in ev' /\ "refresh_joined" \notin ev') =>
           /\ "refresh_no_token" \in ev' /\ "refresh_sent" \notin ev'
           /\ refreshPromise' = NULL
           /\ \A a \in AttemptIds : attempts'[a].st # "pending"
      /\ "refresh_failed" \in ev' =>
           /\ "store_tokens" \notin ev'
           /\ store' = store \/ store' = EmptyStore
           /\ \A p \in Procs : Awaiting(procs[p]) => procs'[p].result \in AuthRequired
    ]_vars

\* refresh() has thrown for want of a refreshToken, the slot is empty
C10_Witness ==
  {"called_without_token", "refresh_no_token"} \subseteq ev /\ refreshPromise = NULL

\* ---------------------------------------------------------------- C11
Scheduled(e) == e \cap {"timer_armed", "refresh_immediate"} # {}

SessionUnchanged ==
  /\ store' = store
  /\ timers' = timers
  /\ tokenExpiryTimer' = tokenExpiryTimer
  /\ refreshPromise' = refreshPromise

\* the texts the server put in the body of the last answer, whichever member
\* carries them
ServerText(e) ==
  {m \in ({b.message : b \in ErrorBodies} \cup {b.error : b \in ErrorBodies}) \ {""} :
     "message:" \o m \in e \/ "error:" \o m \in e}

StoredContents ==
  [accessToken : {NULL, 1}, refreshToken : {NULL, 1}, orinId : {NULL},
   tokenExpiry : {NULL} \cup (0 .. MaxTime + 1)]

InitStored ==
  /\ now = 0
  /\ store \in StoredContents
  /\ refreshPromise = NULL
  /\ tokenExpiryTimer = NULL
  /\ timers = {}
  /\ attempts = [a \in AttemptIds |-> FreeAttempt]
  /\ procs = [p \in Procs |-> IdleProc]
  /\ issued = 0
  /\ ev = {}
  /\ started = {}
  /\ calls = 0
  /\ InitUi

\* a caller asks isAuthenticated() (lines 82-90)
IsAuthenticatedCall ==
  /\ ev' = {IF IsAuthenticated(Cur) THEN "isAuthenticated:true" ELSE "isAuthenticated:false"}
  /\ UNCHANGED <<now, store, refreshPromise, tokenExpiryTimer, timers, attempts,
                 procs, issued, started, calls>>
  /\ UNCHANGED uiVars

NextStored ==
  \/ Tick
  \/ IsAuthenticatedCall

SpecStored == InitStored /\ [][NextStored]_vars

\* C12: isAuthenticated() returns true exactly when an access token and an
\* expiry are stored and now < expiry; it returns false when the access token
\* or the expiry is absent and when now >= expiry.
C12_ValidIffUnexpired ==
  /\ "isAuthenticated:true" \in ev =>
       store.accessToken # NULL /\ store.tokenExpiry # NULL /\ now < store.tokenExpiry
  /\ "isAuthenticated:false" \in ev =>
       store.accessToken = NULL \/ store.tokenExpiry = NULL \/ now >= store.tokenExpiry

\* the check was made at the very instant a stored Credential expires
C12_Witness ==
  /\ "isAuthenticated:false" \in ev
  /\ store.accessToken # NULL
  /\ store.tokenExpiry # NULL
  /\ now = store.tokenExpiry
  /\ now > 0

\* ---------------------------------------------------------------- C13
\* C13: when the wrapped request, first or retried, ends with anything but an
\* unauthorized answer (2xx, another error status, a rejected fetch), the call
\* of authenticatedFetch ends in that step with exactly that outcome, and the
\* store, the armed timer and the refresh slot are as they were; the only
\* change to the store in such a step is the caller's own (deleteMyOrinId
\* removing the orinId key after a 2xx).
C13_OtherOutcomesUntouched ==
  [][ \A resp \in Responses \ {"401"} :
        (resp \in ev' /\ ev' \cap {"first_response", "retry_response"} # {}) =>
          /\ \E p \in Procs :
               /\ procs[p].pc = IF "first_response" \in ev' THEN "fetch1" ELSE "fetch2"
               /\ procs'[p] = Done(resp)
          /\ store' = IF "orin_removed" \in ev' THEN [store EXCEPT !.orinId = NULL]
                                                ELSE store
          /\ "orin_removed" \in ev' => resp = "ok"
          /\ "clear_auth" \notin ev' /\ "store_tokens" \notin ev'
          /\ timers' = timers
          /\ tokenExpiryTimer' = tokenExpiryTimer
          /\ refreshPromise' = refreshPromise
          /\ attempts' = attempts
    ]_vars

\* the retried request was rejected while a Credential was stored and its
\* timer armed
C13_Witness ==
  /\ {"retry_response", "rejected"} \subseteq ev
  /\ \E p \in Procs : procs[p].result = "rejected"
  /\ store.accessToken # NULL
  /\ \E t \in timers : t.id = tokenExpiryTimer

\* ---------------------------------------------------------------- C14
Last(seq) == seq[Len(seq)]

\* C14 (as claimed): for each validated Challenge payload handed over, exactly
\* one approval call is made with the body {challengeId, nonce} of the payload,
\* and it goes through authenticatedFetch: the stored Credential is valid when
\* the request is sent (or is refreshed first), the bearer token is the one in
\* the CredentialStore, and an unauthorized answer is followed by a refresh
\* and one retry.
C14_ApprovalThroughAuthenticatedRequest ==
  [][ /\ "delivered" \in ev' =>
           /\ Len(approvals') = Len(approvals) + 1
           /\ ~Falsy(Last(approvals').body.challengeId)
           /\ ~Falsy(Last(approvals').body.nonce)
           /\ Last(approvals').tok = store'.accessToken
           /\ IsAuthenticated(Cur) \/ RefreshCalled(ev')
      /\ ({"approval_failed", "401"} \subseteq ev') => RefreshCalled(ev')
    ]_vars

C20_NumericIdUnchanged ==
  (parsed # NotParsed /\ IsNumericId(Trim(scanText))) => parsed = Id(Trim(scanText))


\* C16: at no point do two scanners, or two start attempts of one scanner,
\* hold a live camera stream at the same time (a second start is rejected).
\* The code rejects no start and leaves streams live that no scanner stops.
C16_OneLiveCameraHandle == Cardinality(tracks) <= 1

C17_StoppedScannerHoldsNoCamera == ~camera.mounted => tracks = {}

\* ---------------------------------------------------------------- C21
\* the text after a leading `orin` and one optional hyphen
AfterOrinPrefix(s) ==
  LET idPart == SubSeq(s, Len(OrinPrefix) + 1, Len(s))
  IN  IF idPart # <<>> /\ Head(idPart) = "-" THEN Tail(idPart) ELSE idPart

\* C21 (as claimed): a text with a case-insensitive `orin` prefix, optionally
\* followed by a hyphen, is classified as the remainder after the prefix and
\* the hyphen: "orin-test1" gives "test1".
C21_OrinPrefixStripped ==
  (parsed # NotParsed /\ StartsWithOrin(Trim(scanText)))
    => parsed = Id(AfterOrinPrefix(Trim(scanText)))

\* ---------------------------------------------------------------- C22
HasBothFields(q) ==
  q.kind = "object" /\ q.challengeId # "undefined" /\ q.nonce # "undefined"

\* C22 (as claimed): the decoded text is handed on as a Challenge exactly when
\* it parses to an object that contains both a challengeId and a nonce field.
C22_ChallengeIffBothFields ==
  parsed # NotParsed => (parsed.st = "challenge" <=> HasBothFields(scanText))

\* C22 (amended): the decoded text is handed on as a Challenge, carrying its
\* challengeId and nonce, exactly when it parses to an object whose
\* challengeId and nonce are both truthy (not absent, null, false, 0 or the
\* empty string); every other text, parsable or not, is Invalid, and the
\* callback ends without an exception for every text.
C22_ChallengeIffBothTruthy ==
  parsed # NotParsed =>
    /\ parsed.st \in {"challenge", "invalid"}
    /\ parsed.st = "challenge" <=>
         /\ HasBothFields(scanText)
         /\ scanText.challengeId \notin {"null", "false", "0", "\"\""}
         /\ scanText.nonce \notin {"null", "false", "0", "\"\""}
    /\ parsed.st = "challenge" =>
         /\ parsed.challengeId = scanText.challengeId
         /\ parsed.nonce = scanText.nonce

C22_Witness ==
  /\ "classified" \in ev
  /\ parsed.st = "challenge"
  /\ scanText.challengeId = "\"abc\""

\* ---------------------------------------------------------------- C23
\* the format of an identifier: 3 to 50 characters out of [A-Za-z0-9_-]
FormatOk(id) ==
  /\ Len(id) >= 3 /\ Len(id) <= 50
  /\ \A k \in 1..Len(id) :
       id[k] \in DigitChars \cup LowerChars \cup UpperChars \cup {"-", "_"}

\* C23: an availability request is sent only in a step that applied the
\* format check to the identifier in the input, and only for an identifier
\* that passes it: no request is ever sent for an identifier that fails.
C23_FormatCheckedBeforeAvailability ==
  [][Len(checks') > Len(checks) =>
       /\ "validated" \in ev'
       /\ Len(checks') = Len(checks) + 1
       /\ Last(checks') = form'.newOrinId
       /\ \A i \in DOMAIN checks' : FormatOk(checks'[i])]_vars

C23_Witness ==
  /\ "format_rejected" \in ev
  /\ Len(form.newOrinId) > MaxIdLen
  /\ checks # <<>>

\* ---------------------------------------------------------------- C24
\* C24: the in-flight slot is null after the step in which an attempt
\* settles, on success and on failure alike; the slot never holds an attempt
\* that has settled; and a refresh() call returns an attempt already in the
\* slot only while that attempt is unsettled, so a call made after the
\* settlement sends a new request.
C24_SlotClearedOnSettlement ==
  [][/\ ({"refresh_ok", "refresh_failed"} \cap ev' # {}) => refreshPromise' = NULL
     /\ refreshPromise' # NULL => attempts'[refreshPromise'].st \in {"pending", "parsing"}
     /\ "refresh_joined" \in ev' =>
          \/ refreshPromise # NULL /\ attempts[refreshPromise].st \in {"pending", "parsing"}
          \/ started' # {}
     /\ (refreshPromise = NULL /\ calls' > 0 /\ store.refreshToken # NULL
           /\ "logout" \notin ev')
          => "refresh_sent" \in ev']_vars

C24_Witness ==
  /\ "refresh_ok" \in ev
  /\ refreshPromise = NULL
  /\ \A a \in AttemptIds : attempts[a] = FreeAttempt
  /\ store.accessToken # NULL

\* ---------------------------------------------------------------- C25
\* C25: in every reachable state the accessToken and the refreshToken are
\* both stored or both absent, whatever the interleaving of login, refresh,
\* authenticated requests, timer firings, logout and page loads.
C25_TokensStoredTogether ==
  (store.accessToken = NULL) <=> (store.refreshToken = NULL)

C25_Witness ==
  /\ "store_tokens" \in ev
  /\ issued > 1
  /\ store.accessToken = issued
  /\ store.refreshToken = issued

\* ---------------------------------------------------------------- C26
\* C26 (as claimed): the expiry written by a successful refresh is greater
\* than or equal to the expiry that was stored before it.
C26_ExpiryNeverDecreases ==
  [][("refresh_ok" \in ev' /\ store.tokenExpiry # NULL)
       => store'.tokenExpiry >= store.tokenExpiry]_vars

\* C26 (amended): a successful refresh stores the time of the answer plus the
\* lifetime the answer carries, whatever was stored before; the stored expiry
\* does not decrease exactly when that lifetime is at least the time that
\* was left of the old token.
C26_ExpiryIsNowPlusLifetime ==
  [][("refresh_ok" \in ev') =>
       \E a \in AttemptIds :
         LET life == attempts[a].tokens.accessTokenExpiresIn
         IN  /\ attempts[a].st = "parsing" /\ attempts'[a] = FreeAttempt
             /\ store'.tokenExpiry = now + life
             /\ store.tokenExpiry # NULL =>
                  (store'.tokenExpiry >= store.tokenExpiry
                     <=> life >= store.tokenExpiry - now)]_vars

C26_Witness ==
  /\ "refresh_ok" \in ev
  /\ now > 0
  /\ store.tokenExpiry = now + Skew
  /\ store.accessToken > 1

\* ---------------------------------------------------------------- C27
\* C27 (as claimed): a scanner on the page holds a camera stream if and only
\* if its state is Active: none in Idle, Requesting or Error.
C27_HandleIffActive ==
  camera.mounted => (camera.streamRef # NULL <=> camera.cameraState = "active")

\* ---------------------------------------------------------------- C28
\* the state changes the claim allows
AllowedTransitions ==
  {<<"idle", "requesting">>, <<"requesting", "active">>, <<"requesting", "error">>,
   <<"active", "idle">>, <<"error", "requesting">>}

ReasonFor(name) ==
  CASE name = "NotAllowedError" -> "Camera permission denied"
    [] name = "NotFoundError" -> "No camera found"
    [] name = "NotReadableError" -> "Camera in use"
    [] OTHER -> "Failed to access camera"

\* C29 (as claimed): when the camera request fails because permission is
\* denied, no device exists or the device is busy, the scanner ends in its
\* error state with the reason of that cause, holds no camera stream, and
\* its decode loop is not running.
C29_FailedStartReportsItsCause ==
  \A i \in Insts, name \in {"NotAllowedError", "NotFoundError", "NotReadableError"} :
    {"denied", i, name} \subseteq ev =>
      /\ scanners[i].hasPermission = "false"
      /\ scanners[i].error = ReasonFor(name)
      /\ scanners[i].streamRef = NULL
      /\ scanners[i].loop = "off"

\* ---------------------------------------------------------------- C30
\* C30 (as claimed): once every scanner has been taken off the page and
\* every pending camera request has been answered, no camera stream is open.
C30_TeardownReleasesCamera ==
  (\A i \in Insts : ~scanners[i].mounted /\ requests[i] = NoRequests) => tracks = {}

\* ---------------------------------------------------------------- C35
\* C35 (as claimed): every result of the identifier classifier is Invalid,
\* 13 digits, or a non-empty text over [A-Za-z0-9_-]; and a text with an
\* `orin` prefix whose remainder is empty or has another character is
\* Invalid.
C35_ResultWellFormed ==
  parsed # NotParsed =>
    /\ parsed = NoId \/ IsNumericId(parsed.id) \/ IsAlphaId(parsed.id)
    /\ (StartsWithOrin(Trim(scanText)) /\ ~IsAlphaId(AfterOrinPrefix(Trim(scanText))))
         => parsed = NoId

\* ---------------------------------------------------------------- C36
\* C36 (as claimed): once logout has emptied the CredentialStore, it stays
\* empty and no refresh timer is armed until the next login, also when the
\* answer of a refresh that was in flight at the logout arrives afterwards.
C36_LoggedOutStaysLoggedOut ==
  [][(store = EmptyStore /\ "login" \notin ev')
       => (store' = EmptyStore /\ tokenExpiryTimer' = NULL /\ timers' = {})]_vars

\* ---------------------------------------------------------------- C37
\* C37 (as claimed): in every state where a Credential is stored and no
\* refresh is in flight, a refresh timer is armed.
C37_SessionHasTimerOrRefresh ==
  (store.accessToken # NULL /\ refreshPromise = NULL)
    => \E t \in timers : t.id = tokenExpiryTimer

\* ---------------------------------------------------------------- C38
\* C38: the step in which a successful refresh answer is stored sends no
\* refresh request: when the stored lifetime is at most the skew, the
\* immediate refresh() storeTokens makes joins the attempt still in the slot.
C38_AnswerStartsNoRefresh ==
  [][("refresh_ok" \in ev') =>
       /\ "refresh_sent" \notin ev'
       /\ \A a \in AttemptIds : attempts'[a].st = "pending" => attempts[a].st = "pending"
       /\ "refresh_immediate" \in ev' => "refresh_joined" \in ev']_vars

C38_Witness ==
  /\ {"refresh_ok", "refresh_immediate", "refresh_joined"} \subseteq ev
  /\ store.tokenExpiry - now <= Skew
  /\ refreshPromise = NULL

\* ---------------------------------------------------------------- C39
\* C39: the bearer token of an approval request is the access token the
\* CredentialStore holds when the request is sent, never one a refresh has
\* replaced or a logout has cleared.
C39_ApprovalBearsStoredToken ==
  "approval_sent" \in ev => Last(approvals).tok = store.accessToken

\* ---------------------------------------------------------------- C32
\* C32: after a successful start at least one decode attempt is made, and the
\* loop keeps going after every miss: in the step that grants the camera to a
\* scanner on the page, its decode loop starts decoding.  In the code the
\* loop of the scanner is off after every grant.
C32_GrantStartsDecoding ==
  "granted" \in ev => \E i \in Insts : scanners[i].loop = "decoding"

\* ---------------------------------------------------------------- C34
\* C34: after a camera start has failed, the camera is requested again only
\* in a step in which the operator starts the scanner: a reader that begins
\* to start on a page whose last start failed does so in an "open scanner"
\* step.  In the code a login does it too when the scanner was left open at
\* logout.
C34_RestartOnlyByOperatorRetry ==
  [][(startFailed /\ codeReader # "starting" /\ codeReader' = "starting")
       => "open_scanner" \in ev']_vars

\* ---------------------------------------------------------------- C31
\* C31: a decode attempt starts only while the capture is active: in a step
\* that starts one the scanner is on the page before and after the step, with
\* the camera granted and a reader.  A frame callback or a resume timer that
\* fires once the scanner has left the page starts none.
C31_DecodeOnlyWhileActive ==
  [][ /\ "decode_start" \in ev' =>
           /\ qrScanner.mounted /\ qrScanner'.mounted
           /\ qrScanner'.hasPermission /\ qrScanner'.codeReader
           /\ ev' \cap {"start_timer", "frame", "resume", "retry"} # {}
      /\ ~qrScanner.mounted => qrScanner'.decoding <= qrScanner.decoding
    ]_vars

\* a frame callback or a resume timer scheduled before the scanner left the
\* page has fired after it left
C31_Witness ==
  /\ ev \cap {"frame", "resume"} # {}
  /\ ~qrScanner.mounted
  /\ qrScanner.codeReader

\* ---------------------------------------------------------------- C33
\* C33: the decode loop never overlaps with itself: at most one decode cycle
\* is running or scheduled by a frame callback at any time.  In the code a
\* resume timer and "Try Again" each start a loop of their own.
C33_OneDecodeCycle == Cycles(qrScanner) <= 1

====
